---------------------------- MODULE Spec2Model ----------------------------
(***************************************************************************)
(* Host-side driver of the progressive path tracer: the camera             *)
(* (src/src/camera.rs), the frame accumulator and uniform upload           *)
(* (src/src/render.rs) and the winit event dispatch (src/src/main.rs).     *)
(*                                                                         *)
(* Numbers.  Every camera quantity is an f32.  An f32 is modelled as the   *)
(* pair <<m, e>> standing for m * 2^e, with either m = 0 and e = 0, or     *)
(* 2^23 <= |m| < 2^24 (a normalised 24-bit significand).  Arithmetic is    *)
(* IEEE-754 binary32 round-to-nearest-even.  The sign of zero is not       *)
(* tracked (== treats +0 and -0 alike), and subnormals, infinities and NaN *)
(* lie outside the explored inputs: a zero-length normalisation is a       *)
(* caller error of the camera (spec 4.1) and is not reached here.          *)
(***************************************************************************)
EXTENDS Integers, Sequences, FiniteSets, TLC

----------------------------------------------------------------------------
(* binary32 arithmetic *)
(* Every intermediate value is passed on as an operator argument, so that  *)
(* each is written, and evaluated, once.                                   *)

Abs(x) == IF x < 0 THEN -x ELSE x

Sgn(x) == IF x < 0 THEN -1 ELSE 1

BL4(n) == IF n = 0 THEN 0 ELSE IF n = 1 THEN 1 ELSE IF n < 4 THEN 2
          ELSE IF n < 8 THEN 3 ELSE 4

BL8(n) == IF n >= 16 THEN 4 + BL4(n \div 16) ELSE BL4(n)

BL16(n) == IF n >= 256 THEN 8 + BL8(n \div 256) ELSE BL8(n)

\* number of binary digits of n >= 0
BitLen(n) == IF n >= 65536 THEN 16 + BL16(n \div 65536) ELSE BL16(n)

\* a floor q with "something was cut off" st: the sticky bit goes to bit 0
Sticky(q, st) == IF st /\ q % 2 = 0 THEN q + 1 ELSE q

\* the significand after rounding up may need one more bit
RoundCarry(s, q1, e) ==
    IF q1 = 16777216 THEN <<s * 8388608, e + 1>> ELSE <<s * q1, e>>

\* sign s, quotient q and remainder r after cutting the low bits below p
RoundTie(s, q, r, p, e) ==
    RoundCarry(s, IF 2 * r > p \/ (2 * r = p /\ q % 2 = 1) THEN q + 1 ELSE q, e)

\* m has n binary digits
RoundBits(m, e, n) ==
    IF n <= 24 THEN <<m * 2^(24 - n), e - (24 - n)>>
    ELSE RoundTie(Sgn(m), Abs(m) \div 2^(n - 24), Abs(m) % 2^(n - 24),
                  2^(n - 24), e + (n - 24))

\* m * 2^e rounded to a 24-bit significand, ties to even.  When m carries a
\* sticky bit in its lowest position at least two bits are cut.
RoundF(m, e) == IF m = 0 THEN <<0, 0>> ELSE RoundBits(m, e, BitLen(Abs(m)))

\* an integer literal as an f32 (|n| < 2^24 is exact)
FromInt(n) == RoundF(n, 0)

FNeg(a) == <<-a[1], a[2]>>

\* hi + lo with lo's significand lm (three guard bits) moved down d places
AddShifted(hi, lo, d, lm) ==
    RoundF(hi[1] * 8
             + Sgn(lo[1]) * (IF d > 27 THEN 1
                             ELSE Sticky(lm \div 2^d, lm % 2^d # 0)),
           hi[2] - 3)

\* hi has the larger exponent
AddAligned(hi, lo) == AddShifted(hi, lo, hi[2] - lo[2], Abs(lo[1]) * 8)

FAdd(a, b) ==
    IF a[1] = 0 THEN b
    ELSE IF b[1] = 0 THEN a
    ELSE IF a[2] >= b[2] THEN AddAligned(a, b)
    ELSE AddAligned(b, a)

FSub(a, b) == FAdd(a, FNeg(b))

\* the 48-bit product as hi * 2^24 + lo
MulRound(s, e, hi, lo) ==
    RoundF(s * Sticky(hi * 8 + (lo \div 2097152), lo % 2097152 # 0), e)

MulLow(s, e, h, low) == MulRound(s, e, h + (low \div 16777216), low % 16777216)

MulMid(s, e, hh, ll, mid) ==
    MulLow(s, e, hh + (mid \div 4096), ll + (mid % 4096) * 4096)

\* x = x1 * 2^12 + x0 and y = y1 * 2^12 + y0
MulLimbs(s, e, x1, x0, y1, y0) ==
    MulMid(s, e, x1 * y1, x0 * y0, x1 * y0 + x0 * y1)

FMul(a, b) ==
    IF a[1] = 0 \/ b[1] = 0 THEN <<0, 0>>
    ELSE MulLimbs(Sgn(a[1]) * Sgn(b[1]), a[2] + b[2] + 21,
                  Abs(a[1]) \div 4096, Abs(a[1]) % 4096,
                  Abs(b[1]) \div 4096, Abs(b[1]) % 4096)

\* one step of long division by y: log2(p) more quotient bits
DivStep(qr, y, p) == <<qr[1] * p + ((qr[2] * p) \div y), (qr[2] * p) % y>>

DivRound(s, e, qr) == RoundF(s * (2 * qr[1] + (IF qr[2] # 0 THEN 1 ELSE 0)), e)

\* x / y to 26 fraction bits and a remainder
DivMag(s, e, x, y) ==
    DivRound(s, e,
        DivStep(DivStep(DivStep(DivStep(DivStep(<<x \div y, x % y>>,
            y, 64), y, 64), y, 64), y, 64), y, 4))

\* a / b for b # 0
FDiv(a, b) ==
    IF a[1] = 0 THEN <<0, 0>>
    ELSE DivMag(Sgn(a[1]) * Sgn(b[1]), a[2] - b[2] - 27, Abs(a[1]), Abs(b[1]))

\* digit-by-digit square root: the bit pairs i, i-1, ..., 0 of rad, then
\* zero pairs down to i = -14; returns <<root, remainder>>
RECURSIVE SqrtBits(_, _, _, _)
SqrtStep(rad, root, r2, i) ==
    IF r2 >= 4 * root + 1 THEN SqrtBits(rad, 2 * root + 1, r2 - (4 * root + 1), i - 1)
    ELSE SqrtBits(rad, 2 * root, r2, i - 1)

SqrtBits(rad, root, rem, i) ==
    IF i < -14 THEN <<root, rem>>
    ELSE SqrtStep(rad, root,
                  rem * 4 + (IF i >= 0 THEN (rad \div 4^i) % 4 ELSE 0), i)

SqrtRound(s, e) == RoundF(2 * s[1] + (IF s[2] # 0 THEN 1 ELSE 0), e)

\* sqrt(m2 * 2^e2) for even e2
SqrtEven(m2, e2) ==
    SqrtRound(SqrtBits(m2, 0, 0, 12), ((e2 + 1024) \div 2) - 512 - 15)

\* sqrt(a) for a >= 0
FSqrt(a) ==
    IF a[1] = 0 THEN <<0, 0>>
    ELSE IF (a[2] + 1024) % 2 = 1 THEN SqrtEven(2 * a[1], a[2] - 1)
    ELSE SqrtEven(a[1], a[2])

FLt(a, b) == FSub(a, b)[1] < 0

FGt(a, b) == FLt(b, a)

----------------------------------------------------------------------------
(* f32 literals of the source *)

F0 == <<0, 0>>

F1 == FromInt(1)

F5 == FromInt(5)

F10 == FromInt(10)

F20 == FromInt(20)

F179 == FromInt(179)

\* 0.1f32 = 0x3DCCCCCD
F0_1 == <<13421773, -27>>

\* 0.001f32 = 0x3A83126F
F0_001 == <<8589935, -33>>

\* 0.003f32 = 0x3B449BA6
F0_003 == <<12884902, -32>>

----------------------------------------------------------------------------
(* math::Vec3: three f32 components, value semantics *)

Vec3(x, y, z) == <<x, y, z>>

VAdd(a, b) == <<FAdd(a[1], b[1]), FAdd(a[2], b[2]), FAdd(a[3], b[3])>>

VSub(a, b) == <<FSub(a[1], b[1]), FSub(a[2], b[2]), FSub(a[3], b[3])>>

VNeg(a) == <<FNeg(a[1]), FNeg(a[2]), FNeg(a[3])>>

VScale(a, s) == <<FMul(a[1], s), FMul(a[2], s), FMul(a[3], s)>>

VLength(a) ==
    FSqrt(FAdd(FAdd(FMul(a[1], a[1]), FMul(a[2], a[2])), FMul(a[3], a[3])))

VDiv(a, len) == <<FDiv(a[1], len), FDiv(a[2], len), FDiv(a[3], len)>>

\* v / |v|; the caller must not pass a zero vector
normalized(a) == VDiv(a, VLength(a))

cross(a, b) ==
    <<FSub(FMul(a[2], b[3]), FMul(a[3], b[2])),
      FSub(FMul(a[3], b[1]), FMul(a[1], b[3])),
      FSub(FMul(a[1], b[2]), FMul(a[2], b[1]))>>

----------------------------------------------------------------------------
(* camera.rs *)

CameraNew(lookfrom, lookat, vup, vfov) ==
    [lookfrom |-> lookfrom, lookat |-> lookat, vup |-> vup, vfov |-> vfov]

\* CameraUniforms::zeroed()
CameraUniformsZeroed ==
    [origin |-> <<F0, F0, F0>>,
     u |-> [dir |-> <<F0, F0, F0>>, fov |-> F0],
     v |-> [dir |-> <<F0, F0, F0>>, fov |-> F0],
     w |-> <<F0, F0, F0>>]

\* h = tan(vfov.to_radians() / 2) scales u and v.  The precision of f32::tan
\* is platform-unspecified, so a scaled axis is kept as the pair of its unit
\* axis and the angle its scale is taken from.  The padding words are 0.
CameraUniformsOf(cam, w, u) ==
    [origin |-> cam.lookfrom,
     u |-> [dir |-> u, fov |-> cam.vfov],
     v |-> [dir |-> cross(w, u), fov |-> cam.vfov],
     w |-> VNeg(w)]

\* w = (lookfrom - lookat).normalized()
UniformsAlong(cam, w) == CameraUniformsOf(cam, w, normalized(cross(cam.vup, w)))

get_uniforms(cam) == UniformsAlong(cam, normalized(VSub(cam.lookfrom, cam.lookat)))

\* if self.vfov < 1.0 { self.vfov = 1.0; }
ClampLow(v) == IF FLt(v, F1) THEN F1 ELSE v

\* if self.vfov > 179.0 { self.vfov = 179.0; }
ClampHigh(v) == IF FGt(v, F179) THEN F179 ELSE v

zoom_add(cam, delta) ==
    [cam EXCEPT !.vfov = ClampHigh(ClampLow(FAdd(@, FMul(delta, F10))))]

zoom_no_lower_clamp(cam, delta) ==
    [cam EXCEPT !.vfov = ClampHigh(FSub(@, FMul(delta, F10)))]

zoom(cam, delta) ==
    [cam EXCEPT !.vfov = ClampHigh(ClampLow(FSub(@, FMul(delta, F10))))]

\* self.lookfrom += move_vec; self.lookat += move_vec
Translate(cam, move_vec) ==
    [cam EXCEPT !.lookfrom = VAdd(@, move_vec), !.lookat = VAdd(@, move_vec)]

TranslateAssign(cam, move_vec) ==
    [cam EXCEPT !.lookfrom = VAdd(@, move_vec), !.lookat = move_vec]

move_along_w_assign(cam, delta) ==
    TranslateAssign(cam, VScale(VScale(normalized(VSub(cam.lookat, cam.lookfrom)),
                                       delta), F5))

move_along_w(cam, delta) ==
    Translate(cam, VScale(VScale(normalized(VSub(cam.lookat, cam.lookfrom)),
                                 delta), F5))

move_along_u(cam, delta) ==
    Translate(cam,
        VScale(VScale(normalized(cross(cam.vup,
                          normalized(VSub(cam.lookfrom, cam.lookat)))),
                      delta), F5))

\* f32::cos and f32::sin at the yaw angles the explored pointer motions
\* produce (0 and +-0.003), correctly rounded
FCos(x) ==
    CASE x = F0 -> F1
      [] x = F0_003 -> <<16777141, -24>>
      [] x = FNeg(F0_003) -> <<16777141, -24>>

FSin(x) ==
    CASE x = F0 -> F0
      [] x = F0_003 -> <<12884883, -32>>
      [] x = FNeg(F0_003) -> <<-12884883, -32>>

\* forward yawed about the y axis, then dy added to its y
Yawed(forward, cos_yaw, sin_yaw, dy) ==
    Vec3(FSub(FMul(forward[1], cos_yaw), FMul(forward[3], sin_yaw)),
         FAdd(forward[2], dy),
         FAdd(FMul(forward[1], sin_yaw), FMul(forward[3], cos_yaw)))

rotate_moves_eye(cam, dx, dy) ==
    [cam EXCEPT !.lookfrom =
        VAdd(cam.lookat,
             Yawed(VSub(cam.lookat, cam.lookfrom), FCos(dx), FSin(dx), dy))]

\* the w and u of lines 89-90 are computed and never used
rotate(cam, dx, dy) ==
    [cam EXCEPT !.lookat =
        VAdd(cam.lookfrom,
             Yawed(VSub(cam.lookat, cam.lookfrom), FCos(dx), FSin(dx), dy))]

----------------------------------------------------------------------------
(* render.rs: the frame accumulator and the uniform upload *)

WIDTH == 1920

HEIGHT == 1080

\* the Uniforms of PathTracer::new; _pad is 0 throughout
UniformsNew(width, height) ==
    [width |-> width, height |-> height, frame_count |-> 0,
     camera |-> CameraUniformsZeroed]

\* a wgpu buffer is zero-initialised until the first write_buffer
BufferZeroed ==
    [width |-> 0, height |-> 0, frame_count |-> 0,
     camera |-> CameraUniformsZeroed]

reset_samples_forgets(u) == u

reset_samples(u) == [u EXCEPT !.frame_count = 0]

\* queue.write_buffer(&uniform_buffer, 0, bytes_of(&uniforms))
Written(u) == [uniforms |-> u, uniform_buffer |-> u]

WrittenEarly(u) ==
    [uniforms |-> [u EXCEPT !.frame_count = @ + 1], uniform_buffer |-> u]

render_frame_writes_first(u, cam) ==
    WrittenEarly([u EXCEPT !.camera = get_uniforms(cam)])

\* The new host-side uniforms and the bytes written to the uniform buffer.
\* frame_count is a u32; the callers stop short of its overflow.
render_frame(u, cam) ==
    Written([u EXCEPT !.frame_count = @ + 1, !.camera = get_uniforms(cam)])

----------------------------------------------------------------------------
(* main.rs: the event loop *)

\* frames rendered in one accumulation run
MaxFrames == 2

\* camera-handler events in one behaviour
MaxOps == 2

\* zoom calls of the zoom scenario
MaxZooms == 200

\* scroll amounts (lines or pixels) delivered by the wheel
ScrollY == {0, 30000, -30000}

\* raw pointer motions (dx, dy)
Motion == {<<0, 0>>, <<1, 1>>, <<-1, 0>>}

CameraEvents ==
    {"KeyZ", "KeyX", "KeyW", "KeyS", "KeyA", "KeyD", "MouseWheel", "MouseMotion"}

VARIABLES
    camera,            \* main's Camera
    uniforms,          \* PathTracer.uniforms
    uniform_buffer,    \* contents of PathTracer.uniform_buffer
    control,           \* "Running", "Exiting" (exit() called), "Exited"
    redraw_requested,  \* a RedrawRequested is due for the window
    last,              \* the event handled last
    run,               \* render_frame calls since the last camera event
    shot,              \* the Camera the last frame was rendered from
    ops,               \* camera events so far
    cam0,              \* round trip: the Camera before the two moves
    delta,             \* round trip: the distance d
    pc                 \* round trip and zoom scenario: position

vars == <<camera, uniforms, uniform_buffer, control, redraw_requested, last,
          run, shot, ops, cam0, delta, pc>>

scenarioVars == <<cam0, delta, pc>>

\* main.rs:32-37
InitialCamera ==
    CameraNew(Vec3(FromInt(-2), FromInt(2), FromInt(1)),
              Vec3(F0, F0, FromInt(-1)),
              Vec3(F0, F1, F0),
              F20)

\* main before event_loop.run, started on the Camera cam
Started(cam) ==
    /\ camera = cam
    /\ uniforms = UniformsNew(WIDTH, HEIGHT)
    /\ uniform_buffer = BufferZeroed
    /\ control = "Running"
    /\ redraw_requested = FALSE
    /\ last = "Init"
    /\ run = 0
    /\ shot = cam
    /\ ops = 0
    /\ cam0 = cam

Init ==
    /\ Started(InitialCamera)
    /\ delta = F0
    /\ pc = "loop"

\* The closure is called for every event winit dispatches.  exit() only
\* records the request: the events of the iteration in progress (a redraw
\* already requested among them) are still dispatched before run returns.
Dispatching == control # "Exited"

\* a handler arm of the form { camera.<op>(..); renderer.reset_samples() }
CameraArm_keeps_samples(name, cam2) ==
    /\ Dispatching
    /\ ops < MaxOps
    /\ camera' = cam2
    /\ uniforms' = uniforms
    /\ last' = name
    /\ run' = 0
    /\ ops' = ops + 1
    /\ UNCHANGED <<uniform_buffer, control, redraw_requested, shot, scenarioVars>>

CameraArm(name, cam2) ==
    /\ Dispatching
    /\ ops < MaxOps
    /\ camera' = cam2
    /\ uniforms' = reset_samples(uniforms)
    /\ last' = name
    /\ run' = 0
    /\ ops' = ops + 1
    /\ UNCHANGED <<uniform_buffer, control, redraw_requested, shot, scenarioVars>>

KeyZ == CameraArm("KeyZ", zoom(camera, F0_1))

KeyX == CameraArm("KeyX", zoom(camera, FNeg(F0_1)))

KeyW_keeps_samples == CameraArm_keeps_samples("KeyW", move_along_w(camera, F0_1))

KeyW == CameraArm("KeyW", move_along_w(camera, F0_1))

KeyS == CameraArm("KeyS", move_along_w(camera, FNeg(F0_1)))

KeyA == CameraArm("KeyA", move_along_u(camera, F0_1))

KeyD == CameraArm("KeyD", move_along_u(camera, FNeg(F0_1)))

\* PixelDelta and LineDelta both come to (y as f32) * 0.001
MouseWheel ==
    \E y \in ScrollY :
        CameraArm("MouseWheel", zoom(camera, FMul(FromInt(y), F0_001)))

MouseMotion_keeps_samples ==
    \E d \in Motion :
        CameraArm_keeps_samples("MouseMotion",
                  rotate(camera, FMul(FromInt(d[1]), F0_003),
                                 FMul(FromInt(d[2]), F0_003)))

MouseMotion ==
    \E d \in Motion :
        CameraArm("MouseMotion",
                  rotate(camera, FMul(FromInt(d[1]), F0_003),
                                 FMul(FromInt(d[2]), F0_003)))

\* the `_ => ()` arms: any other key, window or device event
Unhandled ==
    /\ Dispatching
    /\ last' = "Unhandled"
    /\ UNCHANGED <<camera, uniforms, uniform_buffer, control, redraw_requested,
                   run, shot, ops, scenarioVars>>

\* the window system asks for a repaint (the window is mapped or exposed)
Expose ==
    /\ control = "Running"
    /\ ~redraw_requested
    /\ redraw_requested' = TRUE
    /\ UNCHANGED <<camera, uniforms, uniform_buffer, control, last, run, shot,
                   ops, scenarioVars>>

\* the outcome r of render_frame takes effect
Rendered(r) ==
    /\ uniforms' = r.uniforms
    /\ uniform_buffer' = r.uniform_buffer

RedrawRequested_no_request ==
    /\ Dispatching
    /\ redraw_requested
    /\ uniforms.frame_count < MaxFrames
    /\ Rendered(render_frame(uniforms, camera))
    /\ redraw_requested' = FALSE
    /\ last' = "RedrawRequested"
    /\ run' = run + 1
    /\ shot' = camera
    /\ UNCHANGED <<camera, control, ops, scenarioVars>>

\* render_frame, frame.present(), window.request_redraw()
RedrawRequested ==
    /\ Dispatching
    /\ redraw_requested
    /\ uniforms.frame_count < MaxFrames
    /\ Rendered(render_frame(uniforms, camera))
    /\ redraw_requested' = TRUE
    /\ last' = "RedrawRequested"
    /\ run' = run + 1
    /\ shot' = camera
    /\ UNCHANGED <<camera, control, ops, scenarioVars>>

\* control_handle.exit()
CloseRequested ==
    /\ Dispatching
    /\ control' = "Exiting"
    /\ last' = "CloseRequested"
    /\ UNCHANGED <<camera, uniforms, uniform_buffer, redraw_requested, run,
                   shot, ops, scenarioVars>>

\* event_loop.run returns
LoopExit ==
    /\ control = "Exiting"
    /\ control' = "Exited"
    /\ UNCHANGED <<camera, uniforms, uniform_buffer, redraw_requested, last,
                   run, shot, ops, scenarioVars>>

Next ==
    \/ KeyZ \/ KeyX \/ KeyW \/ KeyS \/ KeyA \/ KeyD
    \/ MouseWheel \/ MouseMotion \/ Unhandled
    \/ Expose \/ RedrawRequested \/ CloseRequested \/ LoopExit

Spec == Init /\ [][Next]_vars

\* a step of RedrawRequested: no other action counts a frame
FrameRendered == run' = run + 1

\* RedrawRequested by its guard and its mark on run, which is all its
\* enabledness depends on
RedrawDelivered ==
    /\ Dispatching
    /\ redraw_requested
    /\ uniforms.frame_count < MaxFrames
    /\ FrameRendered

\* a requested redraw is delivered on the next iteration of the Poll loop
FairSpec == Spec /\ WF_run(RedrawDelivered)

----------------------------------------------------------------------------
(* The zoom scenario: Camera::new(.., 20.0), then zoom(0.1) again and again *)

ZoomInit ==
    /\ Started(InitialCamera)
    /\ delta = F0_1
    /\ pc = "zoom"

ZoomIn ==
    /\ pc = "zoom"
    /\ ops < MaxZooms
    /\ camera' = zoom(camera, delta)
    /\ ops' = ops + 1
    /\ UNCHANGED <<uniforms, uniform_buffer, control, redraw_requested, last,
                   run, shot, scenarioVars>>

ZoomSpec == ZoomInit /\ [][ZoomIn]_vars

----------------------------------------------------------------------------
(* The round trip: move_along_w(d), then move_along_w(-d) *)

V3(x, y, z) == Vec3(FromInt(x), FromInt(y), FromInt(z))

Eyes == {V3(-2, 2, 1), V3(0, 0, 0), V3(1, -2, 2), V3(2, 1, -1)}

Targets == {V3(0, 0, -1), V3(1, 1, 1), V3(-1, 0, 2), V3(2, 1, -1)}

\* 0.5f32
F0_5 == <<8388608, -24>>

Distances == {F0_1, FNeg(F0_1), F0_5, F1}

MoveInit ==
    /\ \E e \in Eyes, t \in Targets :
          /\ e # t
          /\ Started(CameraNew(e, t, Vec3(F0, F1, F0), F20))
    /\ delta \in Distances
    /\ pc = "start"

MoveThere ==
    /\ pc = "start"
    /\ camera' = move_along_w(camera, delta)
    /\ pc' = "moved"
    /\ UNCHANGED <<uniforms, uniform_buffer, control, redraw_requested, last,
                   run, shot, ops, cam0, delta>>

MoveBack ==
    /\ pc = "moved"
    /\ camera' = move_along_w(camera, FNeg(delta))
    /\ pc' = "back"
    /\ UNCHANGED <<uniforms, uniform_buffer, control, redraw_requested, last,
                   run, shot, ops, cam0, delta>>

MoveNext == MoveThere \/ MoveBack

MoveSpec == MoveInit /\ [][MoveNext]_vars

----------------------------------------------------------------------------
(* Claims *)

\* C1: right after any camera handler (Z/X/W/S/A/D, wheel, pointer motion)
\* frame_count is 0, and after N render_frame calls since the last reset (or
\* since construction) frame_count is N.
C1_ResetThenCount ==
    /\ last \in CameraEvents => uniforms.frame_count = 0
    /\ uniforms.frame_count = run

\* two frames rendered in a row after a camera event
C1_Witness == ops >= 1 /\ last = "RedrawRequested" /\ run = 2

\* C2: the frame_count written to the uniform buffer is the count after the
\* increment: it is never 0 for a rendered frame and is 1 for the first frame
\* after a reset.
C2_UploadedCount ==
    last = "RedrawRequested" =>
        /\ uniform_buffer.frame_count = uniforms.frame_count
        /\ uniform_buffer.frame_count # 0
        /\ run = 1 => uniform_buffer.frame_count = 1

\* the first frame after a camera event reset a count of at least 1
C2_Witness == last = "RedrawRequested" /\ run = 1 /\ ops >= 1

\* C3: frame_count goes back to 0 only in a camera handler, and two
\* consecutive uploads with counts k and k+1 (k >= 1) were rendered from the
\* same Camera.
C3_RunSharesCamera ==
    [][ /\ (uniforms.frame_count # 0 /\ uniforms'.frame_count = 0)
            => (last' \in CameraEvents /\ ops' = ops + 1)
        /\ (uniform_buffer.frame_count >= 1
              /\ uniform_buffer'.frame_count = uniform_buffer.frame_count + 1)
            => camera' = shot ]_vars

\* a second frame of a run that began after a camera event
C3_Witness ==
    /\ last = "RedrawRequested"
    /\ uniform_buffer.frame_count >= 2
    /\ ops >= 1
    /\ camera # InitialCamera

\* C4: vfov stays within [1, 179] whatever is zoomed, moved, rotated or drawn.
C4_VfovInRange == ~FLt(camera.vfov, F1) /\ ~FGt(camera.vfov, F179)

\* one wheel event took vfov from 20 down to the bound
C4_Witness == last = "MouseWheel" /\ ops = 1 /\ camera.vfov = F1

\* C5 as claimed: frame_count is reset exactly when the event changed the
\* Camera.
C5_ResetIffCameraMoved ==
    [][ uniforms.frame_count # 0 =>
          ((uniforms'.frame_count = 0) <=> (camera' # camera)) ]_vars

\* C5 as the handlers have it: every camera handler resets frame_count,
\* whether or not the Camera changed; so every change of the Camera resets it.
C5_CameraEventResets ==
    [][ (camera' # camera \/ ops' # ops) => uniforms'.frame_count = 0 ]_vars

\* a wheel event left the Camera as it was drawn and still reset the count
C5_Witness ==
    /\ last = "MouseWheel"
    /\ ops = 1
    /\ camera = shot
    /\ uniform_buffer.frame_count >= 1
    /\ uniforms.frame_count = 0

\* C6: once CloseRequested has been handled no frame is rendered.
C6_NoFrameAfterClose == last = "RedrawRequested" => control = "Running"

\* C7: from vfov = 20, n calls of zoom(0.1) leave vfov = 20 - n down to 1,
\* where it stays.
C7_ZoomSteps ==
    pc = "zoom" => camera.vfov = FromInt(IF ops <= 19 THEN 20 - ops ELSE 1)

\* all the zoom calls made, vfov at the bound
C7_Witness == pc = "zoom" /\ ops = MaxZooms /\ camera.vfov = F1

FAbs(a) == <<Abs(a[1]), a[2]>>

\* 2^-16
Tolerance == <<8388608, -39>>

Near(a, b) == ~FGt(FAbs(FSub(a, b)), Tolerance)

VNear(a, b) == Near(a[1], b[1]) /\ Near(a[2], b[2]) /\ Near(a[3], b[3])

C10_Frame ==
    /\ [](camera.vup = InitialCamera.vup)
    /\ [][ /\ camera'.vup = camera.vup
           /\ last' = "MouseMotion" =>
                (camera'.lookfrom = camera.lookfrom /\ camera'.vfov = camera.vfov)
           /\ run' = run + 1 => camera' = camera ]_vars

\* rotate turned the view about the eye
C10_Witness ==
    /\ last = "MouseMotion"
    /\ camera.lookat # InitialCamera.lookat
    /\ camera.lookfrom = InitialCamera.lookfrom

=============================================================================
